---- MODULE Spec2Model ----
(***************************************************************************)
(* Model of ReviewAnalyzerServer (src/server.py): a WSGI application that  *)
(* keeps a list of reviews in memory, answers GET with the filtered,       *)
(* sentiment-annotated reviews sorted by compound score, and POST by       *)
(* appending a new review.  One request is served to completion before the *)
(* next one is accepted (wsgiref.simple_server), so every request is one   *)
(* atomic action.                                                          *)
(***************************************************************************)
EXTENDS Integers, Sequences, FiniteSets, TLC

VARIABLES
    reviews,    \* self.reviews: the list of stored review dicts
    issued,     \* the ReviewIds uuid.uuid4() has produced so far
    req,        \* the environ of the request served last
    resp,       \* the status and JSON body sent for it
    scored      \* number of analyze_sentiment calls made while serving it

vars == <<reviews, issued, req, resp, scored>>

----------------------------------------------------------------------------
(* Bounds of the model *)

MaxPosts == 2       \* at most this many reviews are created by POST
MaxSeed == 1        \* at most this many rows are loaded from data/reviews.csv

----------------------------------------------------------------------------
(* Values *)

None == "None"      \* Python's None (also: key absent from the environ)

\* an allow-list that lets every location through
ALLOWED_LOCATIONS_unchecked ==
    { "Denver, Colorado", "El Paso, Texas", "Nowhere, Nowhere" }

\* The set literal of server.py ("Salt Lake City, Utah" is listed twice there).
ALLOWED_LOCATIONS ==
    { "Albuquerque, New Mexico", "Carlsbad, California",
      "Chula Vista, California", "Colorado Springs, Colorado",
      "Denver, Colorado", "El Cajon, California", "El Paso, Texas",
      "Escondido, California", "Fresno, California", "La Mesa, California",
      "Las Vegas, Nevada", "Los Angeles, California",
      "Oceanside, California", "Phoenix, Arizona", "Sacramento, California",
      "Salt Lake City, Utah", "Salt Lake City, Utah",
      "San Diego, California", "Tucson, Arizona" }

\* location query values clients send: two allowed ones and one that is not.
LocationInputs == {"Denver, Colorado", "El Paso, Texas", "Nowhere, Nowhere"}

\* Location form values clients send: an allowed one, one that is not, and a
\* blank one.
FormLocationInputs == {"Denver, Colorado", "Nowhere, Nowhere", ""}

\* ReviewBody form values clients send.
BodyInputs == {"Great service!", "Terrible.", ""}

\* start_date / end_date strings clients send.
DateInputs == {"2024-01-01", "2024-01-02", "not-a-date"}

\* CONTENT_LENGTH headers clients send: one that covers the whole body and one
\* that is not a number.
ContentLengthInputs == {"64", "abc"}

\* A datetime is the number of seconds since 2024-01-01 00:00:00.

\* The instants datetime.now() returns in the model (the clock is not assumed
\* to be monotonic): noon of day 1, midnight and noon of day 2.
Clock == {43200, 86400, 129600}

\* Raised by strptime on a string that does not match the format.
ValueError == -1

\* datetime.strftime(dt, "%Y-%m-%d %H:%M:%S")
strftime(dt) ==
    CASE dt = 43200  -> "2024-01-01 12:00:00"
      [] dt = 86400  -> "2024-01-02 00:00:00"
      [] dt = 129600 -> "2024-01-02 12:00:00"

\* datetime.strptime(s, TIMESTAMP_FORMAT)
strptime_timestamp(s) ==
    CASE s = "2024-01-01 12:00:00" -> 43200
      [] s = "2024-01-02 00:00:00" -> 86400
      [] s = "2024-01-02 12:00:00" -> 129600
      [] OTHER -> ValueError

\* datetime.strptime(s, '%Y-%m-%d'): midnight that starts the day.
strptime_date(s) ==
    CASE s = "2024-01-01" -> 0
      [] s = "2024-01-02" -> 86400
      [] OTHER -> ValueError

\* sia.polarity_scores(review_body): the external scorer, a pure function of
\* the text.  neg/neu/pos in thousandths, compound in ten-thousandths.
analyze_sentiment(review_body) ==
    CASE review_body = "Great service!" ->
            [neg |-> 0, neu |-> 185, pos |-> 815, compound |-> 6588]
      [] review_body = "Great food!" ->
            [neg |-> 0, neu |-> 185, pos |-> 815, compound |-> 6588]
      [] review_body = "Terrible." ->
            [neg |-> 1000, neu |-> 0, pos |-> 0, compound |-> -4767]
      [] OTHER ->
            [neg |-> 0, neu |-> 1000, pos |-> 0, compound |-> 0]

\* Rows of data/reviews.csv.
SeedReviews ==
    { [ReviewId |-> 101, Location |-> "El Paso, Texas",
       Timestamp |-> "2024-01-01 12:00:00", ReviewBody |-> "Great food!"],
      [ReviewId |-> 102, Location |-> "Denver, Colorado",
       Timestamp |-> "2024-01-02 00:00:00", ReviewBody |-> "Terrible."] }

SeqsUpTo(S, n) == UNION { [1..k -> S] : k \in 0..n }

----------------------------------------------------------------------------
(* Helpers of the handler *)

\* parse_qs(...).get(key, [None])[0]: parse_qs drops blank values, so a key
\* sent with an empty value reads as absent.
first_value(v) == IF v = "" THEN None ELSE v

\* Python truthiness of an Optional[str]
truthy(v) == v # None /\ v # ""

error_body(msg) == [kind |-> "error", error |-> msg]

\* f"'{location}' is not an allowed location."
not_allowed_msg(location) == "'" \o location \o "' is not an allowed location."

required_msg == "Both 'Location' and 'ReviewBody' are required."

internal_error_msg == "Internal server error."

method_not_allowed_msg == "Method not allowed."

\* str(ex) of the ValueError int() raises on a non-numeric CONTENT_LENGTH
int_error_msg(s) == "invalid literal for int() with base 10: '" \o s \o "'"

\* str(ex) of the UnicodeDecodeError bytes.decode("utf-8") raises
decode_error_msg ==
    "'utf-8' codec can't decode byte 0xff in position 0: invalid start byte"

\* "!=" written for "=="
filter_location_ne(rs, location) ==
    SelectSeq(rs, LAMBDA review : review.Location # location)

\* [review for review in rs if review["Location"] == location]
filter_location(rs, location) ==
    SelectSeq(rs, LAMBDA review : review.Location = location)

\* [review for review in rs if strptime(review['Timestamp']) >= start_date]
filter_start(rs, start_date) ==
    SelectSeq(rs, LAMBDA review :
        strptime_timestamp(review.Timestamp) >= start_date)

\* "<" written for "<="
filter_end_exclusive(rs, end_date) ==
    SelectSeq(rs, LAMBDA review :
        strptime_timestamp(review.Timestamp) < end_date)

\* [review for review in rs if strptime(review['Timestamp']) <= end_date]
filter_end(rs, end_date) ==
    SelectSeq(rs, LAMBDA review :
        strptime_timestamp(review.Timestamp) <= end_date)

\* values put under the wrong keys
annotate_swapped(review) ==
    [ReviewId |-> review.ReviewId,
     Location |-> review.Location,
     Timestamp |-> review.ReviewBody,
     ReviewBody |-> review.Timestamp,
     sentiment |-> analyze_sentiment(review.ReviewBody)]

\* the dict appended to updated_reviews for one review
annotate(review) ==
    [ReviewId |-> review.ReviewId,
     Location |-> review.Location,
     Timestamp |-> review.Timestamp,
     ReviewBody |-> review.ReviewBody,
     sentiment |-> analyze_sentiment(review.ReviewBody)]

\* the list the scoring loop builds from filtered_reviews
updated_reviews(rs) == [i \in 1..Len(rs) |-> annotate(rs[i])]

\* the loop setting review["sentiment"] on the stored dicts themselves
reviews_after_scoring_inplace(store, rs) ==
    [i \in 1..Len(store) |->
        IF store[i] \in { rs[j] : j \in 1..Len(rs) }
        THEN annotate(store[i]) ELSE store[i]]

\* self.reviews after the scoring loop: the loop reads the stored dicts and
\* builds new ones
reviews_after_scoring(store, rs) == store

\* Insertion of x, which followed every element of s in the input, into the
\* sorted s: behind the elements whose key is not smaller.
RECURSIVE insert_desc(_, _)
insert_desc(x, s) ==
    IF s = <<>> THEN <<x>>
    ELSE IF Head(s).sentiment.compound >= x.sentiment.compound
         THEN <<Head(s)>> \o insert_desc(x, Tail(s))
         ELSE <<x>> \o s

\* a descending sort that reverses the order of equal keys (an ascending
\* stable sort followed by reverse())
RECURSIVE sorted_desc_unstable(_)
sorted_desc_unstable(s) ==
    IF s = <<>> THEN <<>>
    ELSE LET rest == sorted_desc_unstable(Tail(s))
             before == SelectSeq(rest, LAMBDA y :
                 y.sentiment.compound >= Head(s).sentiment.compound)
             after == SelectSeq(rest, LAMBDA y :
                 y.sentiment.compound < Head(s).sentiment.compound)
         IN before \o <<Head(s)>> \o after

\* sorted(s, key=lambda x: x["sentiment"]["compound"], reverse=True):
\* Python's sort is stable, also with reverse=True.
RECURSIVE sorted_desc(_)
sorted_desc(s) ==
    IF s = <<>> THEN <<>>
    ELSE insert_desc(s[Len(s)], sorted_desc(SubSeq(s, 1, Len(s) - 1)))

----------------------------------------------------------------------------
(* The handler, ReviewAnalyzerServer.__call__.  Each branch yields the store
   after the request, the response, and the number of scorer calls made. *)

outcome(store, status, body, calls) ==
    [reviews |-> store, resp |-> [status |-> status, body |-> body],
     scored |-> calls]

\* the outer "except Exception" of __call__
internal_error(store, calls) ==
    outcome(store, 500, error_body(internal_error_msg), calls)

\* the GET branch
handle_get(store, environ) ==
    LET location == first_value(environ.location)
        start_date == first_value(environ.start_date)
        end_date == first_value(environ.end_date)
        by_location == IF truthy(location)
                       THEN filter_location(store, location) ELSE store
        by_start == IF truthy(start_date)
                    THEN filter_start(by_location, strptime_date(start_date))
                    ELSE by_location
        by_end == IF truthy(end_date)
                  THEN filter_end(by_start, strptime_date(end_date))
                  ELSE by_start
    IN  IF truthy(location) /\ location \notin ALLOWED_LOCATIONS
        THEN outcome(store, 400, error_body(not_allowed_msg(location)), 0)
        ELSE IF truthy(start_date) /\ strptime_date(start_date) = ValueError
        THEN internal_error(store, 0)
        ELSE IF truthy(end_date) /\ strptime_date(end_date) = ValueError
        THEN internal_error(store, 0)
        ELSE outcome(reviews_after_scoring(store, by_end), 200,
                     [kind |-> "array",
                      items |-> sorted_desc(updated_reviews(by_end))],
                     Len(by_end))

\* int(environ.get('CONTENT_LENGTH', 0))
int_of(s) == IF s = "64" THEN 64 ELSE ValueError

\* the new_review dict
new_review(id, review_body, location, now) ==
    [ReviewId |-> id, ReviewBody |-> review_body, Location |-> location,
     Timestamp |-> strftime(now)]

\* the POST branch; id is what uuid.uuid4() returns, now what datetime.now()
handle_post(store, environ, id, now) ==
    LET location == first_value(environ.Location)
        review_body == first_value(environ.ReviewBody)
        created == new_review(id, review_body, location, now)
    IN  IF int_of(environ.CONTENT_LENGTH) = ValueError
        THEN outcome(store, 400,
                     error_body(int_error_msg(environ.CONTENT_LENGTH)), 0)
        ELSE IF ~environ.utf8
        THEN outcome(store, 400, error_body(decode_error_msg), 0)
        ELSE IF ~truthy(location) \/ ~truthy(review_body)
        THEN outcome(store, 400, error_body(required_msg), 0)
        ELSE IF location \notin ALLOWED_LOCATIONS
        THEN outcome(store, 400, error_body(not_allowed_msg(location)), 0)
        ELSE outcome(Append(store, created), 201,
                     [kind |-> "object", object |-> created], 0)

\* the method error sent as a 400
handle_other_400(store, environ) ==
    outcome(store, 400, error_body(method_not_allowed_msg), 0)

\* the else branch: any other REQUEST_METHOD
handle_other(store, environ) ==
    outcome(store, 405, error_body(method_not_allowed_msg), 0)

----------------------------------------------------------------------------
(* Requests *)

GetEnvirons ==
    [method : {"GET"},
     location : LocationInputs \cup {None},
     start_date : DateInputs \cup {None},
     end_date : DateInputs \cup {None}]

\* A POST: the CONTENT_LENGTH header, whether the bytes of wsgi.input are
\* valid UTF-8, and the form fields the bytes spell ("" is a blank value,
\* None a missing key).
PostEnvirons ==
    { e \in [method : {"POST"},
             CONTENT_LENGTH : ContentLengthInputs,
             utf8 : BOOLEAN,
             Location : FormLocationInputs \cup {None},
             ReviewBody : BodyInputs \cup {None}] :
        \/ e.CONTENT_LENGTH = "64" /\ e.utf8
        \/ e.Location = "Denver, Colorado" /\ e.ReviewBody = "Great service!" }

OtherEnvirons ==
    [method : {"PUT", "DELETE"},
     location : {None, "Nowhere, Nowhere"}]

\* an id that is not generated per review
uuid4_fixed(used) == 1

\* str(uuid.uuid4()): a value no earlier call returned; the k-th call is
\* taken to return k.
uuid4(used) == Cardinality(used) + 1

----------------------------------------------------------------------------
(* The state machine *)

\* __init__: the rows of data/reviews.csv, or [] when loading fails
Init ==
    /\ reviews \in SeqsUpTo(SeedReviews, MaxSeed)
    /\ issued = {}
    /\ req = [method |-> "NONE"]
    /\ resp = [status |-> 0, body |-> [kind |-> "none"]]
    /\ scored = 0

Serve(environ, out) ==
    /\ req' = environ
    /\ reviews' = out.reviews
    /\ resp' = out.resp
    /\ scored' = out.scored

Get ==
    \E environ \in GetEnvirons :
        /\ Serve(environ, handle_get(reviews, environ))
        /\ UNCHANGED issued

Post ==
    \E environ \in PostEnvirons, now \in Clock :
        /\ Cardinality(issued) < MaxPosts
        /\ Serve(environ, handle_post(reviews, environ, uuid4(issued), now))
        /\ issued' = IF resp'.status = 201
                     THEN issued \cup {uuid4(issued)} ELSE issued

Other ==
    \E environ \in OtherEnvirons :
        /\ Serve(environ, handle_other(reviews, environ))
        /\ UNCHANGED issued

Next == Get \/ Post \/ Other

Spec == Init /\ [][Next]_vars

----------------------------------------------------------------------------
(* Vocabulary of the properties *)

ReviewKeys == {"ReviewId", "Location", "Timestamp", "ReviewBody"}

\* a returned review without its sentiment
strip(item) == [k \in ReviewKeys |-> item[k]]

stripped(items) == [i \in 1..Len(items) |-> strip(items[i])]

Count(r, seq) == Cardinality({ i \in 1..Len(seq) : seq[i] = r })

Elements(seq) == { seq[i] : i \in 1..Len(seq) }

\* two sequences hold the same records, each the same number of times
SameBag(a, b) ==
    \A r \in Elements(a) \cup Elements(b) : Count(r, a) = Count(r, b)

IsPrefix(a, b) == Len(a) <= Len(b) /\ SubSeq(b, 1, Len(a)) = a

AllowedInputs == {"Denver, Colorado", "El Paso, Texas"}

\* the POST's bytes could be read and decoded into form fields
Readable(e) == e.CONTENT_LENGTH = "64" /\ e.utf8

Present(v) == v \notin {None, ""}

----------------------------------------------------------------------------
\* C1: a POST whose form body carries a non-empty allowed Location and a
\* non-empty ReviewBody is answered 201, appends exactly one record at the end
\* of the store, echoes Location and ReviewBody, and its ReviewId differs from
\* the ReviewId of every review created by an earlier POST.
C1_PostCreates ==
    [][ ( /\ req'.method = "POST"
          /\ Readable(req')
          /\ req'.Location \in AllowedInputs
          /\ Present(req'.ReviewBody) )
        => /\ resp'.status = 201
           /\ resp'.body.kind = "object"
           /\ reviews' = Append(reviews, resp'.body.object)
           /\ resp'.body.object.Location = req'.Location
           /\ resp'.body.object.ReviewBody = req'.ReviewBody
           /\ resp'.body.object.ReviewId \notin issued
           /\ issued' = issued \cup {resp'.body.object.ReviewId} ]_vars

\* the second review has been created
C1_Witness ==
    /\ req.method = "POST"
    /\ resp.status = 201
    /\ Cardinality(issued) = 2
    /\ resp.body.object.Location = "Denver, Colorado"

\* C2: a review created by a successful POST and retrieved by an unfiltered
\* GET issued immediately afterwards appears in the GET's result with the
\* ReviewId, Location, ReviewBody and Timestamp of the 201 response.
C2_RoundTrip ==
    [][ ( /\ resp.status = 201
          /\ req'.method = "GET"
          /\ req'.location = None
          /\ req'.start_date = None
          /\ req'.end_date = None )
        => /\ resp'.status = 200
           /\ \E i \in 1..Len(resp'.body.items) :
                  strip(resp'.body.items[i]) = resp.body.object ]_vars

\* an unfiltered GET has returned the review created last
C2_Witness ==
    /\ req.method = "GET"
    /\ req.location = None /\ req.start_date = None /\ req.end_date = None
    /\ resp.status = 200
    /\ issued # {}
    /\ reviews[Len(reviews)].ReviewId = Cardinality(issued)
    /\ \E i \in 1..Len(resp.body.items) :
           strip(resp.body.items[i]) = reviews[Len(reviews)]

Rejected(msg) ==
    /\ resp'.status = 400
    /\ resp'.body = [kind |-> "error", error |-> msg]
    /\ reviews' = reviews
    /\ scored' = 0

\* C3: a request that fails validation is answered 400 with the specified
\* message, with the store unchanged and nothing scored: a POST without a
\* (non-empty) Location or ReviewBody gets the "required" message; a POST
\* carrying both, or a GET, whose location is not allowed gets the
\* "not an allowed location" message.
C3_ValidationRejects ==
    [][ /\ ( /\ req'.method = "POST"
             /\ Readable(req')
             /\ ~Present(req'.Location) \/ ~Present(req'.ReviewBody) )
           => Rejected("Both 'Location' and 'ReviewBody' are required.")
        /\ ( /\ req'.method = "POST"
             /\ Readable(req')
             /\ req'.Location = "Nowhere, Nowhere"
             /\ Present(req'.ReviewBody) )
           => Rejected("'Nowhere, Nowhere' is not an allowed location.")
        /\ ( /\ req'.method = "GET"
             /\ req'.location = "Nowhere, Nowhere" )
           => Rejected("'Nowhere, Nowhere' is not an allowed location.") ]_vars

\* a GET with a disallowed location (and a malformed date) was rejected while
\* the store held reviews
C3_Witness ==
    /\ req.method = "GET"
    /\ req.location = "Nowhere, Nowhere"
    /\ req.start_date = "not-a-date"
    /\ resp.status = 400
    /\ Len(reviews) >= 2

\* C4: a GET whose start_date or end_date is present and malformed is
\* answered 400 with an error message of its own, not the generic 500.
C4_MalformedDateIs400 ==
    ( /\ req.method = "GET"
      /\ req.start_date = "not-a-date" \/ req.end_date = "not-a-date" )
    => /\ resp.status = 400
       /\ resp.body.kind = "error"
       /\ resp.body.error # "Internal server error."

\* C5: a failure that is no classified validation failure (here: a CONTENT_LENGTH
\* that is not a number, a body that is not UTF-8) is answered 500 with the
\* generic body; the exception's text is not returned.
C5_UnexpectedIs500 ==
    ( /\ req.method = "POST"
      /\ ~Readable(req) )
    => /\ resp.status = 500
       /\ resp.body = [kind |-> "error", error |-> "Internal server error."]

\* C6: a GET without date criteria returns exactly the stored reviews that
\* match the location criterion, each once: all of them when no location is
\* given, those of the given allowed location otherwise.
C6_LocationFilter ==
    ( /\ req.method = "GET"
      /\ req.start_date = None
      /\ req.end_date = None
      /\ req.location \in AllowedInputs \cup {None} )
    => /\ resp.status = 200
       /\ SameBag(stripped(resp.body.items),
                  SelectSeq(reviews, LAMBDA r :
                      req.location = None \/ r.Location = req.location))

\* a location filter kept one stored review and dropped another
C6_Witness ==
    /\ req.method = "GET"
    /\ req.start_date = None /\ req.end_date = None
    /\ req.location = "Denver, Colorado"
    /\ resp.status = 200
    /\ Len(resp.body.items) >= 2
    /\ Len(resp.body.items) < Len(reviews)

InBounds(r, e) ==
    /\ e.location = None \/ r.Location = e.location
    /\ e.start_date = None
         \/ strptime_timestamp(r.Timestamp) >= strptime_date(e.start_date)
    /\ e.end_date = None
         \/ strptime_timestamp(r.Timestamp) <= strptime_date(e.end_date)

WellFormedDates == {"2024-01-01", "2024-01-02"}

\* C7: a GET with well-formed start_date and/or end_date returns a stored
\* review iff its Timestamp is >= the start bound (when given), <= the end
\* bound (when given) and it matches the location (when given); a Timestamp
\* equal to a bound is included.
C7_DateFilter ==
    ( /\ req.method = "GET"
      /\ req.start_date \in WellFormedDates \cup {None}
      /\ req.end_date \in WellFormedDates \cup {None}
      /\ req.start_date # None \/ req.end_date # None
      /\ req.location \in AllowedInputs \cup {None} )
    => /\ resp.status = 200
       /\ SameBag(stripped(resp.body.items),
                  SelectSeq(reviews, LAMBDA r : InBounds(r, req)))

\* start and end bound both equal a stored Timestamp: that review is
\* returned, an earlier and a later one are not
C7_Witness ==
    /\ req.method = "GET"
    /\ req.start_date = "2024-01-02"
    /\ req.end_date = "2024-01-02"
    /\ resp.status = 200
    /\ \E i \in 1..Len(resp.body.items) :
           resp.body.items[i].Timestamp = "2024-01-02 00:00:00"
    /\ \E i \in 1..Len(reviews) : reviews[i].Timestamp = "2024-01-02 12:00:00"
    /\ \E i \in 1..Len(reviews) : reviews[i].Timestamp = "2024-01-01 12:00:00"

Compounds(items) == { items[i].sentiment.compound : i \in 1..Len(items) }

\* C8: the result of a successful GET is ordered by compound descending,
\* and returned reviews of equal compound keep the relative order they have
\* in the store.
C8_SortedStable ==
    ( req.method = "GET" /\ resp.status = 200 )
    => LET items == resp.body.items
       IN  /\ \A i, j \in 1..Len(items) :
                  i < j => items[i].sentiment.compound
                               >= items[j].sentiment.compound
           /\ \A c \in Compounds(items) :
                  stripped(SelectSeq(items,
                               LAMBDA x : x.sentiment.compound = c))
                  = SelectSeq(reviews, LAMBDA r :
                        /\ r \in Elements(stripped(items))
                        /\ analyze_sentiment(r.ReviewBody).compound = c)

\* two different reviews of equal compound were returned behind or before a
\* third of another compound that stood between them in the store
C8_Witness ==
    /\ req.method = "GET"
    /\ resp.status = 200
    /\ Len(reviews) = 3
    /\ Len(resp.body.items) = 3
    /\ reviews[1].ReviewBody # reviews[2].ReviewBody
    /\ analyze_sentiment(reviews[1].ReviewBody).compound
         = analyze_sentiment(reviews[3].ReviewBody).compound
    /\ reviews[1] # reviews[3]

\* C9: a request whose method is neither GET nor POST is answered 405 with
\* {"error": "Method not allowed."} and leaves the store unchanged.
C9_OtherMethod405 ==
    [][ req'.method \notin {"GET", "POST"}
        => /\ resp'.status = 405
           /\ resp'.body = [kind |-> "error", error |-> "Method not allowed."]
           /\ reviews' = reviews ]_vars

\* a PUT carrying a query string was answered 405 while the store held reviews
C9_Witness ==
    /\ req.method = "PUT"
    /\ req.location = "Nowhere, Nowhere"
    /\ resp.status = 405
    /\ Len(reviews) >= 1

\* C10: the store is append-only: it is always a prefix of its successor,
\* changes only on a POST answered 201, then by one record, and stored
\* reviews never receive a sentiment.
C10_AppendOnly ==
    [][ /\ IsPrefix(reviews, reviews')
        /\ reviews' # reviews
             => /\ req'.method = "POST"
                /\ resp'.status = 201
                /\ Len(reviews') = Len(reviews) + 1
        /\ resp'.status = 201 => Len(reviews') = Len(reviews) + 1
        /\ req'.method = "GET" => reviews' = reviews
        /\ resp'.status \in {400, 405, 500} => reviews' = reviews
        /\ \A i \in 1..Len(reviews') : DOMAIN reviews'[i] = ReviewKeys ]_vars

\* a GET scored a store that holds created reviews
C10_Witness ==
    /\ req.method = "GET"
    /\ resp.status = 200
    /\ scored >= 2
    /\ Cardinality(issued) >= 1
    /\ Len(reviews) >= 2

====
